---- MODULE Spec2Model ----
(***************************************************************************)
(* unikorn-images: audit of the "unikorn:" metadata of the public images   *)
(* of an OpenStack cloud against the Unikorn schema V2 (src/main.go).      *)
(*                                                                         *)
(* main() compiles the schema, retrieves the image list, drops the images  *)
(* without any "unikorn:" property and calls process() on each remaining   *)
(* image, in order.  process() prints the identity header, validates the   *)
(* property bag and prints either the diagnostic or the extracted fields.  *)
(*                                                                         *)
(* Property values are tagged ([t |-> "string", s |-> ...] or              *)
(* [t |-> "null"]) so that the validator's type check and Go's printing of *)
(* a missing map entry ("<nil>") are both modelled.  An int64 byte count   *)
(* is held as four 16-bit limbs, least significant first, because the      *)
(* sizes of interest exceed the model checker's integer range.             *)
(***************************************************************************)
EXTENDS Integers, Sequences, FiniteSets, TLC

VARIABLES pc, schema, page, result, i, validation, stdout

vars == <<pc, schema, page, result, i, validation, stdout>>

(***************************************************************************)
(* Bounds of the model.                                                    *)
(***************************************************************************)
MaxImages == 2
MaxExtra == 1

(***************************************************************************)
(* Generic helpers.                                                        *)
(***************************************************************************)
Range(s) == {s[j] : j \in DOMAIN s}

HasPrefix(s, prefix) ==
    /\ Len(s) >= Len(prefix)
    /\ SubSeq(s, 1, Len(prefix)) = prefix

Str(s) == [t |-> "string", s |-> s]

Nil == [t |-> "null"]

\* lookup in a Go map[string]any: the zero value (nil) when the key is absent
MapGet(m, k) == IF k \in DOMAIN m THEN m[k] ELSE Nil

\* fmt.Println of an interface value
Sprint(v) == IF v.t = "null" THEN "<nil>" ELSE v.s

\* all orders in which a Go map with key set S may be iterated
Orders(S) ==
    {o \in [1..Cardinality(S) -> S] :
        \A a, b \in 1..Cardinality(S) : a # b => o[a] # o[b]}

(***************************************************************************)
(* The schema (const schemav2).                                            *)
(***************************************************************************)
schemav2_NoVersionRequired ==
    [type |-> "object",
     required |-> <<"unikorn:os:kernel", "unikorn:os:family",
                    "unikorn:os:distro", "unikorn:virtualization">>,
     properties |->
        ("unikorn:os:kernel" :> [type |-> "string", enum |-> <<"linux">>]) @@
        ("unikorn:os:family" :> [type |-> "string", enum |-> <<"debian", "redhat">>]) @@
        ("unikorn:os:distro" :> [type |-> "string", enum |-> <<"ubuntu", "rocky">>]) @@
        ("unikorn:os:variant" :> [type |-> "string"]) @@
        ("unikorn:os:codename" :> [type |-> "string"]) @@
        ("unikorn:os:version" :> [type |-> "string"]) @@
        ("unikorn:package:kubernetes" :> [type |-> "string"]) @@
        ("unikorn:package:slurmd" :> [type |-> "string"]) @@
        ("unikorn:gpu_vendor" :> [type |-> "string", enum |-> <<"AMD", "NVIDIA">>]) @@
        ("unikorn:gpu_models" :> [type |-> "string"]) @@
        ("unikorn:gpu_driver" :> [type |-> "string"]) @@
        ("unikorn:virtualization" :>
            [type |-> "string", enum |-> <<"any", "baremetal", "virtualized">>]) @@
        ("unikorn:digest" :> [type |-> "string"])]

schemav2_NoGpuVendorEnum ==
    [type |-> "object",
     required |-> <<"unikorn:os:kernel", "unikorn:os:family",
                    "unikorn:os:distro", "unikorn:os:version",
                    "unikorn:virtualization">>,
     properties |->
        ("unikorn:os:kernel" :> [type |-> "string", enum |-> <<"linux">>]) @@
        ("unikorn:os:family" :> [type |-> "string", enum |-> <<"debian", "redhat">>]) @@
        ("unikorn:os:distro" :> [type |-> "string", enum |-> <<"ubuntu", "rocky">>]) @@
        ("unikorn:os:variant" :> [type |-> "string"]) @@
        ("unikorn:os:codename" :> [type |-> "string"]) @@
        ("unikorn:os:version" :> [type |-> "string"]) @@
        ("unikorn:package:kubernetes" :> [type |-> "string"]) @@
        ("unikorn:package:slurmd" :> [type |-> "string"]) @@
        ("unikorn:gpu_vendor" :> [type |-> "string"]) @@
        ("unikorn:gpu_models" :> [type |-> "string"]) @@
        ("unikorn:gpu_driver" :> [type |-> "string"]) @@
        ("unikorn:virtualization" :>
            [type |-> "string", enum |-> <<"any", "baremetal", "virtualized">>]) @@
        ("unikorn:digest" :> [type |-> "string"])]

schemav2_FooRecognized ==
    [type |-> "object",
     required |-> <<"unikorn:os:kernel", "unikorn:os:family",
                    "unikorn:os:distro", "unikorn:os:version",
                    "unikorn:virtualization">>,
     properties |->
        ("unikorn:os:kernel" :> [type |-> "string", enum |-> <<"linux">>]) @@
        ("unikorn:os:family" :> [type |-> "string", enum |-> <<"debian", "redhat">>]) @@
        ("unikorn:os:distro" :> [type |-> "string", enum |-> <<"ubuntu", "rocky">>]) @@
        ("unikorn:os:variant" :> [type |-> "string"]) @@
        ("unikorn:os:codename" :> [type |-> "string"]) @@
        ("unikorn:os:version" :> [type |-> "string"]) @@
        ("unikorn:package:kubernetes" :> [type |-> "string"]) @@
        ("unikorn:package:slurmd" :> [type |-> "string"]) @@
        ("unikorn:gpu_vendor" :> [type |-> "string", enum |-> <<"AMD", "NVIDIA">>]) @@
        ("unikorn:gpu_models" :> [type |-> "string"]) @@
        ("unikorn:gpu_driver" :> [type |-> "string"]) @@
        ("unikorn:virtualization" :>
            [type |-> "string", enum |-> <<"any", "baremetal", "virtualized">>]) @@
        ("unikorn:digest" :> [type |-> "string"]) @@
        ("unikorn:foo" :> [type |-> "string", enum |-> <<"foo">>])]

schemav2_EmptyKernelAllowed ==
    [type |-> "object",
     required |-> <<"unikorn:os:kernel", "unikorn:os:family",
                    "unikorn:os:distro", "unikorn:os:version",
                    "unikorn:virtualization">>,
     properties |->
        ("unikorn:os:kernel" :> [type |-> "string", enum |-> <<"linux", "">>]) @@
        ("unikorn:os:family" :> [type |-> "string", enum |-> <<"debian", "redhat">>]) @@
        ("unikorn:os:distro" :> [type |-> "string", enum |-> <<"ubuntu", "rocky">>]) @@
        ("unikorn:os:variant" :> [type |-> "string"]) @@
        ("unikorn:os:codename" :> [type |-> "string"]) @@
        ("unikorn:os:version" :> [type |-> "string"]) @@
        ("unikorn:package:kubernetes" :> [type |-> "string"]) @@
        ("unikorn:package:slurmd" :> [type |-> "string"]) @@
        ("unikorn:gpu_vendor" :> [type |-> "string", enum |-> <<"AMD", "NVIDIA">>]) @@
        ("unikorn:gpu_models" :> [type |-> "string"]) @@
        ("unikorn:gpu_driver" :> [type |-> "string"]) @@
        ("unikorn:virtualization" :>
            [type |-> "string", enum |-> <<"any", "baremetal", "virtualized">>]) @@
        ("unikorn:digest" :> [type |-> "string"])]

schemav2 ==
    [type |-> "object",
     required |-> <<"unikorn:os:kernel", "unikorn:os:family",
                    "unikorn:os:distro", "unikorn:os:version",
                    "unikorn:virtualization">>,
     properties |->
        ("unikorn:os:kernel" :> [type |-> "string", enum |-> <<"linux">>]) @@
        ("unikorn:os:family" :> [type |-> "string", enum |-> <<"debian", "redhat">>]) @@
        ("unikorn:os:distro" :> [type |-> "string", enum |-> <<"ubuntu", "rocky">>]) @@
        ("unikorn:os:variant" :> [type |-> "string"]) @@
        ("unikorn:os:codename" :> [type |-> "string"]) @@
        ("unikorn:os:version" :> [type |-> "string"]) @@
        ("unikorn:package:kubernetes" :> [type |-> "string"]) @@
        ("unikorn:package:slurmd" :> [type |-> "string"]) @@
        ("unikorn:gpu_vendor" :> [type |-> "string", enum |-> <<"AMD", "NVIDIA">>]) @@
        ("unikorn:gpu_models" :> [type |-> "string"]) @@
        ("unikorn:gpu_driver" :> [type |-> "string"]) @@
        ("unikorn:virtualization" :>
            [type |-> "string", enum |-> <<"any", "baremetal", "virtualized">>]) @@
        ("unikorn:digest" :> [type |-> "string"])]

\* the schema value before compiler.Compile has run
NoSchema == [type |-> "none", required |-> <<>>, properties |-> <<>>]

(***************************************************************************)
(* schema.Validate(image.Properties), restricted to the keywords schemav2  *)
(* uses: "type", "enum", "required" and "properties".  The result carries  *)
(* one error per failed keyword, keyed by the keyword, which is the shape  *)
(* process() reads (result.Valid, result.Errors[...].Params).              *)
(***************************************************************************)
Quote(k) == "'" \o k \o "'"

\* validation of one value against one property schema ("type", "enum")
evaluate(propSchema, value) ==
    /\ "type" \in DOMAIN propSchema => value.t = propSchema.type
    /\ "enum" \in DOMAIN propSchema =>
          /\ value.t = "string"
          /\ value.s \in Range(propSchema.enum)

\* the parameters of an error naming the keys in names (a sequence): the
\* singular "property" for one key, the plural "properties" for several
ErrorParams(names) ==
    LET quoted == [j \in DOMAIN names |-> Quote(names[j])]
    IN IF Len(names) = 1 THEN ("property" :> quoted) ELSE ("properties" :> quoted)

\* keyword "required": the required keys that are not in the object,
\* in the order of the schema's "required" list
evaluateRequired(s, object) ==
    LET missingProps == SelectSeq(s.required, LAMBDA k : k \notin DOMAIN object)
    IN IF Len(missingProps) > 0
       THEN ("required" :> [Keyword |-> "required", Params |-> ErrorParams(missingProps)])
       ELSE <<>>

\* the keys of S as a sorted sequence (slices.Sort): the keys of the model
\* in lexicographic order, those of S kept
SortKeys(S) ==
    SelectSeq(<<"architecture", "unikorn:digest", "unikorn:foo",
                "unikorn:gpu_driver", "unikorn:gpu_models",
                "unikorn:gpu_vendor", "unikorn:os:codename",
                "unikorn:os:distro", "unikorn:os:family",
                "unikorn:os:kernel", "unikorn:os:variant",
                "unikorn:os:version", "unikorn:package:kubernetes",
                "unikorn:package:slurmd", "unikorn:virtualization">>,
              LAMBDA k : k \in S)

\* keyword "properties": every schema property that is in the object is
\* validated against its schema; a required property that is not in the
\* object is validated as nil; the failing keys are reported together, sorted
evaluateProperties(s, object) ==
    LET invalid_properties ==
            {propName \in DOMAIN s.properties :
                IF propName \in DOMAIN object
                THEN ~evaluate(s.properties[propName], object[propName])
                ELSE /\ propName \in Range(s.required)
                     /\ ~evaluate(s.properties[propName], Nil)}
    IN IF invalid_properties # {}
       THEN ("properties" :>
               [Keyword |-> "properties",
                Params |-> ErrorParams(SortKeys(invalid_properties))])
       ELSE <<>>

Validate(s, object) ==
    LET errors == evaluateRequired(s, object) @@ evaluateProperties(s, object)
    IN [Valid |-> DOMAIN errors = {}, Errors |-> errors]

NoValidation == [Valid |-> TRUE, Errors |-> <<>>]

(***************************************************************************)
(* process(image, schema).                                                 *)
(***************************************************************************)
\* image.SizeBytes >> 30 on an int64 held as 16-bit limbs: bits 30 and up
\* are the top two bits of limb 2 and all of limbs 3 and 4
sizeGiB_RoundUp(SizeBytes) ==
    (SizeBytes[2] \div 16384) + (4 * SizeBytes[3]) + (262144 * SizeBytes[4])
    + (IF SizeBytes[1] + (SizeBytes[2] % 16384) > 0 THEN 1 ELSE 0)

sizeGiB(SizeBytes) ==
    (SizeBytes[2] \div 16384) + (4 * SizeBytes[3]) + (262144 * SizeBytes[4])

\* the "detail:" list: one entry per error of keyword "properties", in the
\* order in which the error map is iterated
RECURSIVE detail_AlsoRequired(_, _)
detail_AlsoRequired(errors, order) ==
    IF order = <<>> THEN <<>>
    ELSE LET evaluationError == errors[Head(order)]
             keys ==
                 SelectSeq(<<"property", "properties">>,
                           LAMBDA k : k \in DOMAIN evaluationError.Params)
             lines ==
                 [message |-> "Object properties failed validation or do not exist",
                  properties |-> [j \in DOMAIN keys |-> evaluationError.Params[keys[j]]]]
         IN <<lines>> \o detail_AlsoRequired(errors, Tail(order))

RECURSIVE detail(_, _)
detail(errors, order) ==
    IF order = <<>> THEN <<>>
    ELSE LET errorType == Head(order)
             evaluationError == errors[errorType]
             keys ==
                 SelectSeq(<<"property", "properties">>,
                           LAMBDA k : k \in DOMAIN evaluationError.Params)
             lines ==
                 [message |-> "Object properties failed validation or do not exist",
                  properties |-> [j \in DOMAIN keys |-> evaluationError.Params[keys[j]]]]
         IN (IF errorType = "properties" THEN <<lines>> ELSE <<>>)
            \o detail(errors, Tail(order))

osNames == <<"kernel", "family", "distro", "variant", "codename", "version">>

packageNames == <<"kubernetes", "slurmd">>

gpuNames == <<"vendor", "models", "driver">>

osPrefix == "unikorn:os:"

packagePrefix == "unikorn:package:"

gpuPrefix_Colon == "unikorn:gpu:"

gpuPrefix == "unikorn:gpu_"

\* one printed group: for each name, the line "  name: value"
group(Properties, prefix, names) ==
    [j \in DOMAIN names |->
        [name |-> names[j], value |-> Sprint(MapGet(Properties, prefix \o names[j]))]]

header(image) ==
    [id |-> image.ID, name |-> image.Name, createdAt |-> image.CreatedAt,
     sizeGiB |-> sizeGiB(image.SizeBytes)]

\* the document process() prints for an image whose validation gave r, when
\* the error map is iterated in the given order
document(image, r, order) ==
    IF ~r.Valid
    THEN header(image) @@
         [error |->
            [message |-> "Image does not match Unikorn Schema V2",
             detail |-> detail(r.Errors, order)]]
    ELSE header(image) @@
         [os |-> group(image.Properties, osPrefix, osNames),
          package |-> group(image.Properties, packagePrefix, packageNames),
          gpu |-> group(image.Properties, gpuPrefix, gpuNames),
          virtualization |-> Sprint(MapGet(image.Properties, "unikorn:virtualization")),
          digest |-> Sprint(MapGet(image.Properties, "unikorn:digest"))]

\* a NonConforming image ends the run
ProcessImage_Abort ==
    /\ pc = "loop"
    /\ i <= Len(result)
    /\ LET r == Validate(schema, result[i].Properties)
       IN /\ validation' = r
          /\ \E order \in Orders(DOMAIN r.Errors) :
                stdout' = Append(stdout, document(result[i], r, order))
          /\ IF r.Valid
             THEN /\ i' = i + 1
                  /\ pc' = pc
             ELSE /\ i' = i
                  /\ pc' = "exit1"
    /\ UNCHANGED <<schema, page, result>>

\* one iteration of "for i := range result { process(&result[i], schema) }"
ProcessImage ==
    /\ pc = "loop"
    /\ i <= Len(result)
    /\ LET r == Validate(schema, result[i].Properties)
       IN /\ validation' = r
          /\ \E order \in Orders(DOMAIN r.Errors) :
                stdout' = Append(stdout, document(result[i], r, order))
    /\ i' = i + 1
    /\ UNCHANGED <<pc, schema, page, result>>

\* the loop is over: main returns
LoopExit ==
    /\ pc = "loop"
    /\ i > Len(result)
    /\ pc' = "done"
    /\ UNCHANGED <<schema, page, result, i, validation, stdout>>

(***************************************************************************)
(* The inputs: what the image service may return.                          *)
(***************************************************************************)
\* byte counts as limbs: 2^30 - 1, 3221225472, 3400000000, 2^32 + 2^31
SizeSet ==
    {<<65535, 16383, 0, 0>>, <<0, 49152, 0, 0>>, <<57856, 51879, 0, 0>>,
     <<0, 32768, 1, 0>>}

\* the value of a key of a bag: an option is <<>> (absent) or <<value>>
kernelOpts == {<<>>, <<"linux">>, <<"windows">>, <<"">>}
familyOpts == {<<>>, <<"debian">>, <<"redhat">>, <<"">>}
distroOpts == {<<>>, <<"ubuntu">>, <<"">>}
versionOpts == {<<>>, <<"22.04">>, <<"">>}
virtualizationOpts == {<<>>, <<"any">>, <<"virtualized">>, <<"">>}
gpuVendorOpts == {<<>>, <<"NVIDIA">>, <<"Intel">>}

\* the free-form and the unrecognized keys a bag may carry, with their values
ExtraValue ==
    ("unikorn:os:variant" :> "server") @@
    ("unikorn:os:codename" :> "jammy") @@
    ("unikorn:package:kubernetes" :> "v1.30.2") @@
    ("unikorn:package:slurmd" :> "") @@
    ("unikorn:gpu_models" :> "H100") @@
    ("unikorn:gpu_driver" :> "525.85.05") @@
    ("unikorn:digest" :> "sha256:0a1b") @@
    ("unikorn:foo" :> "bar") @@
    ("architecture" :> "x86_64")

Bag(opts, extra) ==
    [k \in {k \in DOMAIN opts : opts[k] # <<>>} |-> Str(opts[k][1])] @@
    [k \in extra |-> Str(ExtraValue[k])]

Bags ==
    {Bag(("unikorn:os:kernel" :> kernel) @@ ("unikorn:os:family" :> family) @@
         ("unikorn:os:distro" :> distro) @@ ("unikorn:os:version" :> version) @@
         ("unikorn:virtualization" :> virtualization) @@
         ("unikorn:gpu_vendor" :> vendor), extra) :
        kernel \in kernelOpts, family \in familyOpts, distro \in distroOpts,
        version \in versionOpts, virtualization \in virtualizationOpts,
        vendor \in gpuVendorOpts,
        extra \in {e \in SUBSET (DOMAIN ExtraValue) : Cardinality(e) <= MaxExtra}}

ConformingBag ==
    ("unikorn:os:kernel" :> Str("linux")) @@ ("unikorn:os:family" :> Str("debian")) @@
    ("unikorn:os:distro" :> Str("ubuntu")) @@ ("unikorn:os:version" :> Str("22.04")) @@
    ("unikorn:virtualization" :> Str("any"))

\* the bags of the images of a whole run
RunBags ==
    {<<>>,
     ("architecture" :> Str("x86_64")) @@ ("unikorn" :> Str("yes")),
     ("unikorn:foo" :> Str("bar")),
     ConformingBag,
     ("unikorn:os:kernel" :> Str("windows")) @@ ConformingBag}

Image(j, size, bag) ==
    [ID |-> "image-" \o ToString(j), Name |-> "name-" \o ToString(j),
     CreatedAt |-> "2025-01-01", SizeBytes |-> size, Properties |-> bag]

ImageLists ==
    UNION {{[j \in 1..n |-> Image(j, l[j][1], l[j][2])] :
               l \in [1..n -> SizeSet \X RunBags]} : n \in 0..MaxImages}

(***************************************************************************)
(* main().                                                                 *)
(***************************************************************************)
\* "if err != nil { fmt.Println(err); os.Exit(1) }"
Fatal(step) ==
    /\ stdout' = Append(stdout, [fatal |-> step])
    /\ pc' = "exit1"

Compile ==
    /\ pc = "compile"
    /\ \/ /\ schema' = schemav2
          /\ pc' = "parse"
          /\ UNCHANGED stdout
       \/ /\ Fatal("compile")
          /\ UNCHANGED schema
    /\ UNCHANGED <<page, result, i, validation>>

CloudsParse ==
    /\ pc = "parse"
    /\ \/ /\ pc' = "provider"
          /\ UNCHANGED stdout
       \/ Fatal("parse")
    /\ UNCHANGED <<schema, page, result, i, validation>>

NewProviderClient ==
    /\ pc = "provider"
    /\ \/ /\ pc' = "client"
          /\ UNCHANGED stdout
       \/ Fatal("provider")
    /\ UNCHANGED <<schema, page, result, i, validation>>

NewImageV2 ==
    /\ pc = "client"
    /\ \/ /\ pc' = "list"
          /\ UNCHANGED stdout
       \/ Fatal("client")
    /\ UNCHANGED <<schema, page, result, i, validation>>

\* images.List(client, opts).AllPages(ctx)
ListAllPages ==
    /\ pc = "list"
    /\ \/ /\ \E l \in ImageLists : page' = l
          /\ pc' = "extract"
          /\ UNCHANGED stdout
       \/ /\ Fatal("list")
          /\ UNCHANGED page
    /\ UNCHANGED <<schema, result, i, validation>>

ExtractImages ==
    /\ pc = "extract"
    /\ \/ /\ result' = page
          /\ pc' = "filter"
          /\ UNCHANGED stdout
       \/ /\ Fatal("extract")
          /\ UNCHANGED result
    /\ UNCHANGED <<schema, page, i, validation>>

\* the predicate of slices.DeleteFunc: no key of the image starts with "unikorn:"
del_AnyKey(image) == DOMAIN image.Properties = {}

del(image) ==
    ~(\E key \in DOMAIN image.Properties : HasPrefix(key, "unikorn:"))

\* result = slices.DeleteFunc(result, del)
DeleteFunc ==
    /\ pc = "filter"
    /\ result' = SelectSeq(result, LAMBDA image : ~del(image))
    /\ i' = 1
    /\ pc' = "loop"
    /\ UNCHANGED <<schema, page, validation, stdout>>

Init ==
    /\ pc = "compile"
    /\ schema = NoSchema
    /\ page = <<>>
    /\ result = <<>>
    /\ i = 1
    /\ validation = NoValidation
    /\ stdout = <<>>

Next ==
    \/ Compile
    \/ CloudsParse
    \/ NewProviderClient
    \/ NewImageV2
    \/ ListAllPages
    \/ ExtractImages
    \/ DeleteFunc
    \/ ProcessImage
    \/ LoopExit

Spec == Init /\ [][Next]_vars

\* main is sequential code that nothing suspends: once the list is in hand,
\* the filter, each iteration of the loop and the return are eventually taken
FairSpec ==
    /\ Spec
    /\ WF_vars(DeleteFunc)
    /\ WF_vars(ProcessImage)
    /\ WF_vars(LoopExit)

(***************************************************************************)
(* process() alone, on one eligible image with any bag of Bags.            *)
(***************************************************************************)
InitProcess ==
    /\ pc = "loop"
    /\ schema = schemav2
    /\ \E bag \in Bags :
          /\ page = <<Image(1, <<57856, 51879, 0, 0>>, bag)>>
          /\ ~del(page[1])
    /\ result = page
    /\ i = 1
    /\ validation = NoValidation
    /\ stdout = <<>>

NextProcess ==
    \/ ProcessImage
    \/ LoopExit

SpecProcess == InitProcess /\ [][NextProcess]_vars

(***************************************************************************)
(* Vocabulary of the properties below, stated independently of the schema  *)
(* definition above.                                                       *)
(***************************************************************************)
RequiredKeys ==
    {"unikorn:os:kernel", "unikorn:os:family", "unikorn:os:distro",
     "unikorn:os:version", "unikorn:virtualization"}

RecognizedKeys ==
    RequiredKeys \cup
    {"unikorn:os:variant", "unikorn:os:codename", "unikorn:package:kubernetes",
     "unikorn:package:slurmd", "unikorn:gpu_vendor", "unikorn:gpu_models",
     "unikorn:gpu_driver", "unikorn:digest"}

ClosedSet ==
    ("unikorn:os:kernel" :> {"linux"}) @@
    ("unikorn:os:family" :> {"debian", "redhat"}) @@
    ("unikorn:os:distro" :> {"ubuntu", "rocky"}) @@
    ("unikorn:gpu_vendor" :> {"AMD", "NVIDIA"}) @@
    ("unikorn:virtualization" :> {"any", "baremetal", "virtualized"})

AllKeys == RecognizedKeys \cup DOMAIN ExtraValue

\* the required keys a bag lacks
Missing(bag) == RequiredKeys \ DOMAIN bag

\* the enumerated keys a bag holds with a value outside the closed set
OutOfSet(bag) ==
    {k \in DOMAIN ClosedSet \cap DOMAIN bag : bag[k].s \notin ClosedSet[k]}

\* the per-image documents printed so far, and the image each is about
IsDocument(d) == "id" \in DOMAIN d

Documents == {j \in DOMAIN stdout : IsDocument(stdout[j])}

ImageOf(d) == CHOOSE image \in Range(page) : image.ID = d.id

NonConforming(d) == "error" \in DOMAIN d

Conforming(d) == "os" \in DOMAIN d

\* the keys one defect entry lists
EntryKeys(e) ==
    {k \in AllKeys : \E j \in DOMAIN e.properties : Quote(k) \in Range(e.properties[j])}

\* the keys all the defect entries of a document list
DefectKeys(d) == UNION {EntryKeys(d.error.detail[j]) : j \in DOMAIN d.error.detail}

\* what is printed for a key of a bag
Printed(bag, k) == IF k \in DOMAIN bag THEN bag[k].s ELSE "<nil>"

\* C1 as stated: a bag that lacks a required key is reported NonConforming
\* with a defect whose key list is exactly the missing required keys.
C1_ExactlyMissingKeys ==
    \A j \in Documents :
        LET d == stdout[j]
            bag == ImageOf(d).Properties
        IN Missing(bag) # {} =>
              /\ NonConforming(d)
              /\ \E e \in Range(d.error.detail) : EntryKeys(e) = Missing(bag)

\* C1 amended: a bag that lacks a required key is reported NonConforming
\* with exactly one defect, whose key list is exactly the missing required
\* keys together with the enumerated keys present with a value outside their
\* closed set (so exactly the missing keys when every present value is valid).
C1_MissingAndInvalidKeys ==
    \A j \in Documents :
        LET d == stdout[j]
            bag == ImageOf(d).Properties
        IN Missing(bag) # {} =>
              /\ NonConforming(d)
              /\ Len(d.error.detail) = 1
              /\ EntryKeys(d.error.detail[1]) = Missing(bag) \cup OutOfSet(bag)

\* the bag {unikorn:os:kernel: "linux"} gave one defect listing the four others
C1_Witness ==
    \E j \in Documents :
        /\ ImageOf(stdout[j]).Properties = ("unikorn:os:kernel" :> Str("linux"))
        /\ NonConforming(stdout[j])
        /\ Len(stdout[j].error.detail) = 1
        /\ EntryKeys(stdout[j].error.detail[1]) = RequiredKeys \ {"unikorn:os:kernel"}

\* C2: when the five required keys are present and every present recognized
\* key has a valid value, the document is the Conforming view with all
\* thirteen fields, each the bag's value verbatim or the absent marker.
C2_ConformingFieldsVerbatim ==
    \A j \in Documents :
        LET d == stdout[j]
            bag == ImageOf(d).Properties
            line(grp, n, name, key) ==
                /\ d[grp][n].name = name
                /\ d[grp][n].value = Printed(bag, key)
        IN (Missing(bag) = {} /\ OutOfSet(bag) = {}) =>
              /\ Conforming(d)
              /\ ~NonConforming(d)
              /\ Len(d.os) = 6
              /\ line("os", 1, "kernel", "unikorn:os:kernel")
              /\ line("os", 2, "family", "unikorn:os:family")
              /\ line("os", 3, "distro", "unikorn:os:distro")
              /\ line("os", 4, "variant", "unikorn:os:variant")
              /\ line("os", 5, "codename", "unikorn:os:codename")
              /\ line("os", 6, "version", "unikorn:os:version")
              /\ Len(d.package) = 2
              /\ line("package", 1, "kubernetes", "unikorn:package:kubernetes")
              /\ line("package", 2, "slurmd", "unikorn:package:slurmd")
              /\ Len(d.gpu) = 3
              /\ line("gpu", 1, "vendor", "unikorn:gpu_vendor")
              /\ line("gpu", 2, "models", "unikorn:gpu_models")
              /\ line("gpu", 3, "driver", "unikorn:gpu_driver")
              /\ d.virtualization = Printed(bag, "unikorn:virtualization")
              /\ d.digest = Printed(bag, "unikorn:digest")

\* a conforming bag with a GPU vendor was printed: vendor present, models absent
C2_Witness ==
    \E j \in Documents :
        LET d == stdout[j]
            bag == ImageOf(d).Properties
        IN /\ Missing(bag) = {}
           /\ OutOfSet(bag) = {}
           /\ Conforming(d)
           /\ d.gpu[1].value = "NVIDIA"
           /\ d.gpu[2].value = "<nil>"
           /\ d.os[6].value = "22.04"

\* C3: a bag in which an enumerated key is present with a value outside its
\* closed set is reported NonConforming, whatever the other keys hold.
C3_EnumerationEnforced ==
    \A j \in Documents :
        LET d == stdout[j]
            bag == ImageOf(d).Properties
        IN OutOfSet(bag) # {} => (NonConforming(d) /\ ~Conforming(d))

\* kernel "windows" with every required key present and otherwise valid
C3_Witness ==
    \E j \in Documents :
        LET bag == ImageOf(stdout[j]).Properties
        IN /\ Missing(bag) = {}
           /\ OutOfSet(bag) = {"unikorn:os:kernel"}
           /\ bag["unikorn:os:kernel"] = Str("windows")
           /\ NonConforming(stdout[j])

\* the ids of the documents printed so far, in print order
RECURSIVE DocumentIds(_)
DocumentIds(out) ==
    IF out = <<>> THEN <<>>
    ELSE (IF IsDocument(Head(out)) THEN <<Head(out).id>> ELSE <<>>)
         \o DocumentIds(Tail(out))

\* an image is eligible when one of its keys starts with "unikorn:"
Eligible(image) ==
    \E k \in DOMAIN image.Properties :
        Len(k) >= 8 /\ SubSeq(k, 1, 8) = "unikorn:"

\* the ids of the eligible images of the retrieved list, in its order
EligibleIds ==
    LET kept == SelectSeq(page, Eligible)
    IN [j \in DOMAIN kept |-> kept[j].ID]

\* C4: once the schema is compiled and the list retrieved, the run comes to
\* its end having printed exactly one document per eligible image, in the
\* order of the retrieved list, however many of them are NonConforming.
C4_EveryEligibleImageReported ==
    (pc = "filter") ~> (pc = "done" /\ DocumentIds(stdout) = EligibleIds)

\* a finished run in which a NonConforming document is followed by another
C4_Witness ==
    /\ pc = "done"
    /\ Len(stdout) = 2
    /\ NonConforming(stdout[1])
    /\ IsDocument(stdout[2])
    /\ DocumentIds(stdout) = EligibleIds

\* C5: no document is ever printed for an image without a "unikorn:" key,
\* the images that reach the loop are exactly the eligible ones, and at the
\* end of the run each of them has its document.
C5_EligibilityFilter ==
    /\ \A j \in Documents : Eligible(ImageOf(stdout[j]))
    /\ pc = "loop" => [j \in DOMAIN result |-> result[j].ID] = EligibleIds
    /\ pc = "done" => DocumentIds(stdout) = EligibleIds

\* a finished run over a list holding an ineligible image with keys and an
\* eligible one: one document only
C5_Witness ==
    /\ pc = "done"
    /\ Len(page) = 2
    /\ DOMAIN page[1].Properties = {"architecture", "unikorn"}
    /\ Eligible(page[2])
    /\ DocumentIds(stdout) = <<page[2].ID>>

\* C6: a run that ends in a failure has printed the error and no document;
\* a failure is only ever raised by the schema compilation and the five
\* retrieval steps, and nothing else ends the run with the failure exit.
C6_FatalErrorsPrecedeProcessing ==
    /\ [](\A j \in DOMAIN stdout :
             ~IsDocument(stdout[j]) => (pc = "exit1" /\ Len(stdout) = 1))
    /\ [](pc = "exit1" => Documents = {})
    /\ [][pc' = "exit1" =>
             pc \in {"compile", "parse", "provider", "client", "list", "extract"}]_vars

\* images were listed, their extraction failed, and nothing was printed for them
C6_Witness ==
    /\ pc = "exit1"
    /\ Len(page) = MaxImages
    /\ \A j \in DOMAIN page : Eligible(page[j])
    /\ stdout = <<[fatal |-> "extract"]>>

\* what a document says apart from the identity of the image
Outcome(d) == [f \in DOMAIN d \ {"id", "name", "createdAt"} |-> d[f]]

\* C7: two images with the same bag and size get the same outcome, whatever
\* the order in which the error map was iterated and whatever came before.
C7_Deterministic ==
    \A j, k \in Documents :
        LET a == ImageOf(stdout[j])
            b == ImageOf(stdout[k])
        IN (a.Properties = b.Properties /\ a.SizeBytes = b.SizeBytes) =>
              Outcome(stdout[j]) = Outcome(stdout[k])

\* the same bag, with both a "required" and a "properties" error, twice
C7_Witness ==
    /\ Len(stdout) >= 2
    /\ IsDocument(stdout[1])
    /\ IsDocument(stdout[2])
    /\ ImageOf(stdout[1]).Properties = ImageOf(stdout[2]).Properties
    /\ ImageOf(stdout[1]).SizeBytes = ImageOf(stdout[2]).SizeBytes
    /\ DOMAIN validation.Errors = {"required", "properties"}
    /\ NonConforming(stdout[1])
    /\ Outcome(stdout[1]) = Outcome(stdout[2])

\* a bag without its unrecognized keys
Strip(bag) == [k \in DOMAIN bag \cap RecognizedKeys |-> bag[k]]

\* C8: the verdict on a bag is the verdict on the bag without its
\* unrecognized keys, and no defect lists an unrecognized key.
C8_UnrecognizedKeysIgnored ==
    \A j \in Documents :
        LET d == stdout[j]
            bag == ImageOf(d).Properties
        IN /\ NonConforming(d) <=> ~Validate(schemav2, Strip(bag)).Valid
           /\ NonConforming(d) => DefectKeys(d) \subseteq RecognizedKeys

\* a bag with the unrecognized key unikorn:foo was found Conforming
C8_Witness ==
    \E j \in Documents :
        /\ "unikorn:foo" \in DOMAIN ImageOf(stdout[j]).Properties
        /\ Conforming(stdout[j])

\* the low 30 bits of a byte count, and the byte count g * 2^30 + r
Low30(size) == size[1] + (65536 * (size[2] % 16384))

Bytes(g, r) ==
    <<r % 65536, (r \div 65536) + (16384 * (g % 4)), (g \div 4) % 65536, g \div 262144>>

\* C9: sizeGiB is the quotient of the byte count by 2^30, the remainder
\* dropped: bytes = sizeGiB * 2^30 + r with 0 <= r < 2^30; 3221225472 and
\* 3400000000 bytes both give 3.
C9_SizeTruncated ==
    \A j \in Documents :
        LET d == stdout[j]
            size == ImageOf(d).SizeBytes
        IN /\ Low30(size) \in 0..1073741823
           /\ Bytes(d.sizeGiB, Low30(size)) = size
           /\ size = <<0, 49152, 0, 0>> => d.sizeGiB = 3
           /\ size = <<57856, 51879, 0, 0>> => d.sizeGiB = 3

\* 3400000000 bytes were reported as 3 and 2^30 - 1 bytes as 0
C9_Witness ==
    /\ Len(stdout) = 2
    /\ IsDocument(stdout[1])
    /\ IsDocument(stdout[2])
    /\ ImageOf(stdout[1]).SizeBytes = <<57856, 51879, 0, 0>>
    /\ stdout[1].sizeGiB = 3
    /\ ImageOf(stdout[2]).SizeBytes = <<65535, 16383, 0, 0>>
    /\ stdout[2].sizeGiB = 0

\* the required keys with a closed set
RequiredEnumKeys == RequiredKeys \cap DOMAIN ClosedSet

\* the keys an error of the validation result names
ErrorKeys(r, keyword) ==
    IF keyword \in DOMAIN r.Errors
    THEN {k \in AllKeys :
            \E p \in DOMAIN r.Errors[keyword].Params :
                Quote(k) \in Range(r.Errors[keyword].Params[p])}
    ELSE {}

====
